---- MODULE Spec2Model ----
(***************************************************************************)
(* Model of the wistar REST API views (api/views.py): the topology         *)
(* lifecycle handlers get_topology_status, start_topology,                 *)
(* start_topology_old, configure_topology, delete_topology and             *)
(* import_topology_json, run against a document store and a hypervisor.    *)
(*                                                                         *)
(* Every handler is one action.  The collaborators the handlers call      *)
(* (libvirtUtils, consoleUtils, osUtils, linuxUtils, the Script and        *)
(* Topology stores) answer through an oracle chosen per call: one call     *)
(* point may raise (env.fault) and any set of call points may answer       *)
(* False / None (env.neg).  Each handler records the calls it made, in     *)
(* order, in last.trace, and what it returned in last.res.                 *)
(*                                                                         *)
(* The actions bind the rows a handler finds and the calls it plans with   *)
(* \E over singleton sets, so that each is evaluated once per step.        *)
(***************************************************************************)
EXTENDS Integers, Sequences, FiniteSets, TLC

\* ------------------------------------------------------------------------
\* Bounds and input sets
\* ------------------------------------------------------------------------

\* number of handler invocations in one behaviour
MaxCalls == 3

\* the value of request.POST when the parameter is missing
Absent == "<absent>"

Names == {"lab1", "lab2"}

\* script_id / script_data / script_param values as they arrive in request.POST
ScriptIds == {"0", "5"}

ScriptParam == "x"

\* Python values: request.POST holds strings, the literal 0 of the code is an int
PyStr(s) == [t |-> "str", v |-> s]

PyInt(s) == [t |-> "int", v |-> s]

\* Python ==: a str never equals an int
PyEq(a, b) == a.t = b.t /\ a.v = b.v

\* ------------------------------------------------------------------------
\* Topology documents (Topology.json): an ordered sequence of entries
\* ------------------------------------------------------------------------

Vm(type, label, host) ==
    [wistarVm |-> TRUE, type |-> type, label |-> label,
     ip |-> [net |-> "192.168.122", host |-> host],
     configScriptId |-> "0", configScriptParam |-> ""]

\* an entry without userData.wistarVm (a connection between two instances)
Conn(label) ==
    [wistarVm |-> FALSE, type |-> "draw2d.Connection", label |-> label,
     ip |-> [net |-> "", host |-> 0],
     configScriptId |-> "0", configScriptParam |-> ""]

DocLinux == << Vm("linux", "n1", 2), Conn("br1"), Vm("linux", "n2", 4) >>

DocMixed == << Vm("junos", "n1", 20), Conn("br1"), Vm("linux", "n2", 21) >>

DocOther == << Vm("other", "n1", 30) >>

Docs == {DocLinux, DocMixed, DocOther}

\* the order in which the hypervisor lists objects of one topology
LabelOrder == << "br1", "n1", "n2" >>

VmEntries(doc) == SelectSeq(doc, LAMBDA e : e.wistarVm)

ConnEntries(doc) == SelectSeq(doc, LAMBDA e : ~e.wistarVm)

LinuxEntries(doc) == SelectSeq(doc, LAMBDA e : e.wistarVm /\ e.type = "linux")

\* ------------------------------------------------------------------------
\* State
\* ------------------------------------------------------------------------

VARIABLES
    topologies,   \* the Topology table: set of [id, name, json]
    nextId,       \* next primary key of the Topology table
    domains,      \* hypervisor domains: <<id, label>> -> "shut off" | "running"
    networks,     \* hypervisor networks: <<id, label>> -> "inactive" | "active"
    defined,      \* history: <<id, label>> -> number of times the domain was defined
    ncalls,       \* handler invocations so far
    last,         \* the invocation in progress: request, oracle, calls made, response
    inflight      \* requests served concurrently: sequence of [op, pc, locals, ...]

vars == << topologies, nextId, domains, networks, defined, ncalls, last, inflight >>

\* ------------------------------------------------------------------------
\* Call points, oracle, traces
\* ------------------------------------------------------------------------

\* a call of collaborator f about object <<id, label>>
P(f, id, label) == [f |-> f, a |-> << id, label >>]

NoFault == P("none", 0, "")

NoEnv == [fault |-> NoFault, neg |-> {}]

\* what the call at point p does: "raise", "no" (False / None), "ok"
Outcome(env, p) ==
    IF env.fault = p THEN "raise"
    ELSE IF p \in env.neg THEN "no"
    ELSE "ok"

Min(S) == CHOOSE x \in S : \A y \in S : x <= y

\* index of the first call of the sequence that does not answer "ok", or 0
FirstBad(env, points) ==
    LET bad == {i \in 1..Len(points) : Outcome(env, points[i]) # "ok"}
    IN IF bad = {} THEN 0 ELSE Min(bad)

\* the calls of the sequence that are made when the loop stops at the first bad one
Made(env, points) ==
    IF FirstBad(env, points) = 0 THEN points
    ELSE SubSeq(points, 1, FirstBad(env, points))

Range(s) == {s[i] : i \in 1..Len(s)}

\* the oracles of a call whose possible collaborator calls are `order`, in call
\* order: at most one call raises and any of negPoints answer False; what the
\* calls after the raising one would answer is never consulted
Envs(order, negPoints) ==
    {[fault |-> NoFault, neg |-> n] : n \in SUBSET negPoints}
    \cup UNION {{[fault |-> order[i], neg |-> n] :
                    n \in SUBSET (negPoints \cap {order[j] : j \in 1..(i - 1)})} :
                i \in 1..Len(order)}

\* ------------------------------------------------------------------------
\* Responses
\* ------------------------------------------------------------------------

\* an HttpResponse carrying a JSON context
Response(status, message) ==
    [kind |-> "response", status |-> status, message |-> message,
     deploy_status |-> "-", boot_status |-> "-", console_status |-> "-",
     configured_status |-> "-"]

\* the exception left the view
Escaped == [Response("-", "-") EXCEPT !.kind = "exception"]

\* the view fell off its end and returned None
ReturnedNone == [Response("-", "-") EXCEPT !.kind = "none"]

Idle ==
    [op |-> "idle", name |-> "", script_id |-> "", clone_id |-> 0, env |-> NoEnv,
     res |-> Response("-", "-"), trace |-> << >>, topologyId |-> 0]

Call(op, name, script_id, clone_id, env, res, trace, id) ==
    [op |-> op, name |-> name, script_id |-> script_id, clone_id |-> clone_id,
     env |-> env, res |-> res, trace |-> trace, topologyId |-> id]

\* the part of the oracle the calls made have consulted
Seen(env, trace) ==
    [fault |-> IF env.fault \in Range(trace) THEN env.fault ELSE NoFault,
     neg |-> env.neg \cap Range(trace)]

\* ------------------------------------------------------------------------
\* Collaborators
\* ------------------------------------------------------------------------

\* Topology.objects.get(name=...): the rows with that name
ByName(name) == {t \in topologies : t.name = name}

ById(id) == {t \in topologies : t.id = id}

\* libvirtUtils.get_domains_for_topology("t<id>_"): name and state, listing order
get_domains_for_topology(doms, id) ==
    LET labels == SelectSeq(LabelOrder, LAMBDA l : << id, l >> \in DOMAIN doms)
    IN [i \in 1..Len(labels) |-> [label |-> labels[i], state |-> doms[<< id, labels[i] >>]]]

\* libvirtUtils.get_networks_for_topology("t<id>_")
get_networks_for_topology(nets, id) ==
    SelectSeq(LabelOrder, LAMBDA l : << id, l >> \in DOMAIN nets)

\* ------------------------------------------------------------------------
\* get_topology_status
\* ------------------------------------------------------------------------

StatusContext ==
    [kind |-> "response", status |-> "not ready", message |-> "no message",
     deploy_status |-> "not ready", boot_status |-> "not ready",
     console_status |-> "not ready", configured_status |-> "not ready"]

\* the console probes of the third gate: one per linux managed node, document order
ConsolePoints(t) ==
    [i \in 1..Len(LinuxEntries(t.json)) |->
        P("is_linux_device_at_prompt", t.id, LinuxEntries(t.json)[i].label)]

\* the address checks of the fourth gate: one per managed node, document order
CheckIpPoints(t) ==
    [i \in 1..Len(VmEntries(t.json)) |-> P("check_ip", t.id, VmEntries(t.json)[i].label)]

\* gate 1 as a bug would have it: the length of the list is never tested
DeployGate_Skipped(listed) == TRUE

\* gate 1: `if len(domains) == 0` fails the gate
DeployGate(listed) == Len(listed) # 0

\* gate 2 as a bug would have it: the state of the domains is never tested
BootGate_Skipped(listed) == TRUE

\* gate 2: one domain in state "shut off" fails the gate
BootGate(listed) == \A i \in 1..Len(listed) : listed[i].state # "shut off"

\* the except clause as a bug would have it: the context is built anew
Caught_Reset(context) == [StatusContext EXCEPT !.message = "Caught Exception!"]

\* the except clause: only the message of the context changes
Caught(context) == [context EXCEPT !.message = "Caught Exception!"]

\* the gates, once the topology row t is found (the try block); listed is what
\* get_domains_for_topology answers, console and checks the probes of gates 3 and 4
StatusGates(t, listed, console, checks, env) ==
    LET pDomains == P("get_domains_for_topology", t.id, "")
        pJson == P("json.loads", t.id, "")
        caught(c) == Caught(c)
        c1 == [StatusContext EXCEPT !.deploy_status = "ready"]
        c2 == [c1 EXCEPT !.boot_status = "ready"]
        c3 == [c2 EXCEPT !.console_status = "ready"]
        c4 == [c3 EXCEPT !.configured_status = "ready"]
        kc == FirstBad(env, console)
        ki == FirstBad(env, checks)
        tr1 == << pDomains >>
        tr2 == << pDomains, pJson >>
        tr3 == tr2 \o Made(env, console)
        tr4 == tr3 \o Made(env, checks)
    IN  IF Outcome(env, pDomains) = "raise"
        THEN [res |-> caught(StatusContext), trace |-> tr1]
        ELSE IF ~DeployGate(listed)
        THEN [res |-> [StatusContext EXCEPT !.message = "not yet deployed!"], trace |-> tr1]
        ELSE IF ~BootGate(listed)
        THEN [res |-> [c1 EXCEPT !.message = "not all instances are started"], trace |-> tr1]
        ELSE IF Outcome(env, pJson) = "raise"
        THEN [res |-> caught(c2), trace |-> tr2]
        ELSE IF kc # 0 /\ Outcome(env, console[kc]) = "raise"
        THEN [res |-> caught(c2), trace |-> tr3]
        ELSE IF kc # 0
        THEN [res |-> [c2 EXCEPT !.message = "not all instances have a console ready"],
              trace |-> tr3]
        ELSE IF ki # 0 /\ Outcome(env, checks[ki]) = "raise"
        THEN [res |-> caught(c3), trace |-> tr4]
        ELSE IF ki # 0
        THEN [res |-> [c3 EXCEPT !.message = "not all instances have a management IP"],
              trace |-> tr4]
        ELSE [res |-> [c4 EXCEPT !.status = "ready",
                                 !.message = "Sandbox is fully booted and available"],
              trace |-> tr4]

\* found: the rows Topology.objects.get(name=...) matches
get_topology_status(name, found, listed, console, checks, env) ==
    LET pGet == P("Topology.objects.get", 0, name)
    IN  IF name = Absent
        THEN [res |-> [StatusContext EXCEPT !.message = "Invalid parameters in POST"],
              trace |-> << >>, id |-> 0]
        ELSE IF Outcome(env, pGet) = "raise" \/ Cardinality(found) > 1
        THEN [res |-> Escaped, trace |-> << pGet >>, id |-> 0]
        ELSE IF found = {}
        THEN [res |-> [StatusContext EXCEPT !.message = "topology does not exist"],
              trace |-> << pGet >>, id |-> 0]
        ELSE LET t == CHOOSE x \in found : TRUE
                 g == StatusGates(t, listed, console, checks, env)
             IN [res |-> g.res, trace |-> << pGet >> \o g.trace, id |-> t.id]

\* F of the one row found, or none when the lookup does not find exactly one
ForRow(found, F(_), none) ==
    IF Cardinality(found) = 1 THEN F(CHOOSE x \in found : TRUE) ELSE none

GetTopologyStatus ==
    /\ last.op = "idle"
    /\ ncalls < MaxCalls
    /\ \E name \in Names \cup {Absent} : \E found \in {ByName(name)} :
       \E listed \in {ForRow(found, LAMBDA t : get_domains_for_topology(domains, t.id), << >>)} :
       \E console \in {ForRow(found, ConsolePoints, << >>)} :
       \E checks \in {ForRow(found, CheckIpPoints, << >>)} :
       \E env \in Envs(<< P("Topology.objects.get", 0, name) >>
                       \o ForRow(found, LAMBDA t : << P("get_domains_for_topology", t.id, ""),
                                                      P("json.loads", t.id, "") >>, << >>)
                       \o console \o checks,
                       Range(console) \cup Range(checks)) :
       \E r \in {get_topology_status(name, found, listed, console, checks, env)} :
          last' = Call("get_topology_status", name, "", 0, Seen(env, r.trace),
                       r.res, r.trace, r.id)
    /\ ncalls' = ncalls + 1
    /\ UNCHANGED inflight
    /\ UNCHANGED << topologies, nextId, domains, networks, defined >>

\* ------------------------------------------------------------------------
\* import_topology_json
\* ------------------------------------------------------------------------

\* name = Absent: the body has no "wistar.info" entry, so `name` is unbound
import_topology_json(name, doc, env) ==
    LET pClone == P("clone_topology", 0, name)
        pSave == P("Topology.save", nextId, name)
        failed == Response("False", "Topology Import Failed!")
    IN  IF Outcome(env, pClone) = "raise"
        THEN [res |-> failed, trace |-> << pClone >>, rows |-> topologies, next |-> nextId]
        ELSE IF name = Absent
        THEN [res |-> failed, trace |-> << pClone >>, rows |-> topologies, next |-> nextId]
        ELSE IF Outcome(env, pSave) = "raise"
        THEN [res |-> failed, trace |-> << pClone, pSave >>, rows |-> topologies,
              next |-> nextId]
        ELSE [res |-> Response("True", "Topology Imported"),
              trace |-> << pClone, pSave >>,
              rows |-> topologies \cup {[id |-> nextId, name |-> name, json |-> doc]},
              next |-> nextId + 1]

ImportTopologyJson ==
    /\ last.op = "idle"
    /\ ncalls < MaxCalls
    /\ \E name \in Names \cup {Absent} : \E doc \in Docs :
       \E env \in Envs(<< P("clone_topology", 0, name), P("Topology.save", nextId, name) >>, {}) :
       \E r \in {import_topology_json(name, doc, env)} :
          /\ last' = Call("import_topology_json", name, "", 0, Seen(env, r.trace),
                          r.res, r.trace, IF r.next = nextId THEN 0 ELSE nextId)
          /\ topologies' = r.rows
          /\ nextId' = r.next
    /\ ncalls' = ncalls + 1
    /\ UNCHANGED inflight
    /\ UNCHANGED << domains, networks, defined >>

\* ------------------------------------------------------------------------
\* get_topology_inventory
\* ------------------------------------------------------------------------

\* the view answers the inventory dict itself: host name -> address of every
\* managed node, with no status and no message
Inventory(entries) ==
    [Response("-", "-") EXCEPT !.kind = "inventory"] @@ [inventory |-> entries]

\* found: the rows Topology.objects.get(name=...) matches
get_topology_inventory(name, found, env) ==
    LET pGet == P("Topology.objects.get", 0, name)
        t == CHOOSE x \in found : TRUE
        pJson == P("json.loads", t.id, "")
    IN  IF name = Absent
        THEN [res |-> Inventory({}), trace |-> << >>, id |-> 0]
        ELSE IF Outcome(env, pGet) = "raise" \/ Cardinality(found) > 1
        THEN [res |-> Escaped, trace |-> << pGet >>, id |-> 0]
        ELSE IF found = {}
        THEN [res |-> Inventory({}), trace |-> << pGet >>, id |-> 0]
        ELSE IF Outcome(env, pJson) = "raise"
        THEN [res |-> Inventory({}), trace |-> << pGet, pJson >>, id |-> t.id]
        ELSE [res |-> Inventory({<< e.label, e.ip >> : e \in Range(VmEntries(t.json))}),
              trace |-> << pGet, pJson >>, id |-> t.id]

GetTopologyInventory ==
    /\ last.op = "idle"
    /\ ncalls < MaxCalls
    /\ \E name \in Names \cup {Absent} : \E found \in {ByName(name)} :
       \E env \in Envs(<< P("Topology.objects.get", 0, name) >>
                       \o ForRow(found, LAMBDA t : << P("json.loads", t.id, "") >>, << >>), {}) :
       \E r \in {get_topology_inventory(name, found, env)} :
          last' = Call("get_topology_inventory", name, "", 0, Seen(env, r.trace),
                       r.res, r.trace, r.id)
    /\ ncalls' = ncalls + 1
    /\ UNCHANGED inflight
    /\ UNCHANGED << topologies, nextId, domains, networks, defined >>

\* ------------------------------------------------------------------------
\* Hypervisor effects of the calls a handler completed
\* ------------------------------------------------------------------------

\* index of the call of the sequence that raises, or 0
FirstRaise(env, points) ==
    LET bad == {i \in 1..Len(points) : Outcome(env, points[i]) = "raise"}
    IN IF bad = {} THEN 0 ELSE Min(bad)

\* the calls made when the first raising call ends the sequence
MadeUntilRaise(env, points) ==
    IF FirstRaise(env, points) = 0 THEN points
    ELSE SubSeq(points, 1, FirstRaise(env, points))

\* the calls of a trace that returned normally with success
Completed(env, trace) == {p \in Range(trace) : Outcome(env, p) = "ok"}

Objects(done, f) == {p.a : p \in {q \in done : q.f = f}}

\* the domains after the completed calls `done`
DomainsAfter(doms, done) ==
    [a \in (DOMAIN doms \cup Objects(done, "define_domain")) \ Objects(done, "undefine_domain")
        |-> IF P("start_domain", a[1], a[2]) \in done THEN "running"
            ELSE IF a \in DOMAIN doms THEN doms[a]
            ELSE "shut off"]

NetworksAfter(nets, done) ==
    [a \in (DOMAIN nets \cup Objects(done, "define_network")) \ Objects(done, "undefine_network")
        |-> IF P("start_network", a[1], a[2]) \in done THEN "active"
            ELSE IF a \in DOMAIN nets THEN nets[a]
            ELSE "inactive"]

DefinedAfter(defs, done) ==
    [a \in DOMAIN defs \cup Objects(done, "define_domain")
        |-> (IF a \in DOMAIN defs THEN defs[a] ELSE 0)
            + (IF P("define_domain", a[1], a[2]) \in done THEN 1 ELSE 0)]

\* ------------------------------------------------------------------------
\* Deploy: instantiate if no domain exists, then start networks, then domains
\* ------------------------------------------------------------------------

\* av.inline_deploy_topology(config): define every network, then every domain,
\* that the hypervisor does not have yet; nothing is started
inline_deploy_topology(t, doms, nets) ==
    LET conns == SelectSeq(ConnEntries(t.json), LAMBDA e : << t.id, e.label >> \notin DOMAIN nets)
        vms == SelectSeq(VmEntries(t.json), LAMBDA e : << t.id, e.label >> \notin DOMAIN doms)
    IN  << P("inline_deploy_topology", t.id, "") >>
        \o [i \in 1..Len(conns) |-> P("define_network", t.id, conns[i].label)]
        \o [i \in 1..Len(vms) |-> P("define_domain", t.id, vms[i].label)]

\* the instantiation step as a bug would have it: the length of the domain
\* list is never tested
InstantiatePlan_Unguarded(t, doms, nets) ==
    << P("load_config_from_topology_json", t.id, "") >> \o inline_deploy_topology(t, doms, nets)

\* the instantiation step of both deploy handlers: the calls made when
\* len(domain_list) == 0, none otherwise
InstantiatePlan(t, doms, nets) ==
    IF Len(get_domains_for_topology(doms, t.id)) = 0
    THEN << P("load_config_from_topology_json", t.id, "") >>
         \o inline_deploy_topology(t, doms, nets)
    ELSE << >>

\* the start step as a bug would have it: only the domains that are not
\* running are started, and no network
StartPlan_StoppedOnly(t, doms, nets) ==
    LET domList == SelectSeq(get_domains_for_topology(doms, t.id),
                             LAMBDA d : d.state # "running")
    IN  << P("get_networks_for_topology", t.id, ""), P("get_domains_for_topology", t.id, "again") >>
        \o [i \in 1..Len(domList) |-> P("start_domain", t.id, domList[i].label)]

\* the start step as a bug would have it: the two loops swapped
StartPlan_DomainsFirst(t, doms, nets) ==
    LET netList == get_networks_for_topology(nets, t.id)
        domList == get_domains_for_topology(doms, t.id)
    IN  << P("get_networks_for_topology", t.id, ""), P("get_domains_for_topology", t.id, "again") >>
        \o [i \in 1..Len(domList) |-> P("start_domain", t.id, domList[i].label)]
        \o [i \in 1..Len(netList) |-> P("start_network", t.id, netList[i])]

\* the start step of both deploy handlers, on the hypervisor as instantiation
\* left it: every network of the list, then every domain of the list
StartPlan(t, doms, nets) ==
    LET netList == get_networks_for_topology(nets, t.id)
        domList == get_domains_for_topology(doms, t.id)
    IN  << P("get_networks_for_topology", t.id, ""), P("get_domains_for_topology", t.id, "again") >>
        \o [i \in 1..Len(netList) |-> P("start_network", t.id, netList[i])]
        \o [i \in 1..Len(domList) |-> P("start_domain", t.id, domList[i].label)]

\* every call of a deploy of topology t when nothing goes wrong
DeployPlan(t, doms, nets) ==
    LET done == Range(InstantiatePlan(t, doms, nets))
    IN  << P("get_domains_for_topology", t.id, "") >> \o InstantiatePlan(t, doms, nets)
        \o StartPlan(t, DomainsAfter(doms, done), NetworksAfter(nets, done))

\* a deploy stops at the first call that raises, and at a config that is None
DeployStop(env, plan) ==
    LET bad == {i \in 1..Len(plan) :
                   \/ Outcome(env, plan[i]) = "raise"
                   \/ /\ plan[i].f = "load_config_from_topology_json"
                      /\ Outcome(env, plan[i]) = "no"}
    IN IF bad = {} THEN 0 ELSE Min(bad)

DeployTrace(env, plan) ==
    IF DeployStop(env, plan) = 0 THEN plan ELSE SubSeq(plan, 1, DeployStop(env, plan))

\* the oracles of a deploy: any call of the plan (or of the lookup and clone
\* before it) may raise, load_config_from_topology_json may answer None
DeployEnvs(before, plan) ==
    Envs(before \o plan, {p \in Range(plan) : p.f = "load_config_from_topology_json"})

\* ------------------------------------------------------------------------
\* start_topology
\* ------------------------------------------------------------------------

\* found: the rows Topology.objects.get(name=...) matches; plan: DeployPlan of
\* the row found
start_topology(name, found, plan, env) ==
    LET pGet == P("Topology.objects.get", 0, name)
        same == [doms |-> domains, nets |-> networks, defs |-> defined]
    IN  IF name = Absent
        THEN [res |-> ReturnedNone, trace |-> << >>, id |-> 0] @@ same
        ELSE IF Outcome(env, pGet) = "raise" \/ Cardinality(found) > 1
        THEN [res |-> Response("False", "Could not start topology!"),
              trace |-> << pGet >>, id |-> 0] @@ same
        ELSE IF found = {}
        THEN [res |-> Response("False", "Topology Does not Exist"),
              trace |-> << pGet >>, id |-> 0] @@ same
        ELSE [res |-> IF DeployStop(env, plan) = 0
                      THEN Response("True", "Topology started!")
                      ELSE Response("False", "Could not start topology!"),
              trace |-> << pGet >> \o DeployTrace(env, plan),
              id |-> (CHOOSE x \in found : TRUE).id,
              doms |-> DomainsAfter(domains, Completed(env, DeployTrace(env, plan))),
              nets |-> NetworksAfter(networks, Completed(env, DeployTrace(env, plan))),
              defs |-> DefinedAfter(defined, Completed(env, DeployTrace(env, plan)))]

StartTopology ==
    /\ last.op = "idle"
    /\ ncalls < MaxCalls
    /\ \E name \in Names \cup {Absent} : \E found \in {ByName(name)} :
       \E plan \in {ForRow(found, LAMBDA t : DeployPlan(t, domains, networks), << >>)} :
       \E env \in DeployEnvs(<< P("Topology.objects.get", 0, name) >>, plan) :
       \E r \in {start_topology(name, found, plan, env)} :
          /\ last' = Call("start_topology", name, "", 0, Seen(env, r.trace),
                          r.res, r.trace, r.id)
                     @@ [domain_list |-> get_domains_for_topology(domains, r.id)]
          /\ domains' = r.doms
          /\ networks' = r.nets
          /\ defined' = r.defs
    /\ ncalls' = ncalls + 1
    /\ UNCHANGED inflight
    /\ UNCHANGED << topologies, nextId >>

\* ------------------------------------------------------------------------
\* start_topology_old: clone the topology if the name is new, then deploy
\* ------------------------------------------------------------------------

\* wistarUtils.get_used_ips(): the last octet of every managed node's address
\* in every stored topology
get_used_ips(rows) ==
    UNION {{e.ip.host : e \in Range(VmEntries(t.json))} : t \in rows}

\* wistarUtils.get_next_ip(used, floor): the lowest free last octet from floor on
get_next_ip(used, floor) ==
    CHOOSE n \in floor..254 : n \notin used /\ \A m \in floor..(n - 1) : m \in used

\* the start offset of the allocation: get_next_ip(all_used_ips, 2)
StartOffset == 2

\* the loop as a bug would have it: the allocated octet is not appended to
\* the used list
CloneEntries_StaleUsed(doc, used, script_id, script_param) ==
    [i \in 1..Len(doc) |->
        IF doc[i].wistarVm
        THEN [doc[i] EXCEPT !.ip.host = get_next_ip(used, StartOffset),
                            !.configScriptId = script_id,
                            !.configScriptParam = script_param]
        ELSE doc[i]]

\* the loop over raw_json: a fresh last octet and the script binding on every
\* managed node, each allocated octet appended to the used list
RECURSIVE CloneEntries(_, _, _, _)
CloneEntries(doc, used, script_id, script_param) ==
    IF doc = << >> THEN << >>
    ELSE IF Head(doc).wistarVm
    THEN << [Head(doc) EXCEPT !.ip.host = get_next_ip(used, StartOffset),
                              !.configScriptId = script_id,
                              !.configScriptParam = script_param] >>
         \o CloneEntries(Tail(doc), used \cup {get_next_ip(used, StartOffset)},
                         script_id, script_param)
    ELSE << Head(doc) >> \o CloneEntries(Tail(doc), used, script_id, script_param)

\* the saved row as a bug would have it: the script binding of the source is kept
ClonedTopology_SourceScript(source, name, script_id, script_param) ==
    [id |-> nextId, name |-> name,
     json |-> [i \in 1..Len(source.json) |->
                  [CloneEntries(source.json, get_used_ips(topologies), script_id, script_param)[i]
                      EXCEPT !.configScriptId = source.json[i].configScriptId]]]

\* the row saved by the clone of topology `source` under `name`
ClonedTopology(source, name, script_id, script_param) ==
    [id |-> nextId, name |-> name,
     json |-> CloneEntries(source.json, get_used_ips(topologies), script_id, script_param)]

\* the calls of the except ObjectDoesNotExist branch
ClonePoints(source, name) ==
    << P("Topology.objects.get_pk", source.id, ""), P("get_used_ips", 0, ""),
       P("json.loads", source.id, "") >>
    \o [i \in 1..Len(VmEntries(source.json)) |->
           P("get_next_ip", source.id, VmEntries(source.json)[i].label)]
    \o << P("Topology.save", nextId, name) >>

\* the row the two deploy try blocks work on: the one found by name, else the clone
TopoOld(name, found, source, script_id, script_param) ==
    IF Cardinality(found) = 1 THEN found
    ELSE IF found = {} /\ name # Absent
    THEN {ClonedTopology(src, name, script_id, script_param) : src \in source}
    ELSE {}

\* the two try blocks that follow the lookup, for the topology row t
DeployOld(t, plan, env) ==
    LET stop == DeployStop(env, plan)
        first == 1 + Len(InstantiatePlan(t, domains, networks))
        \* a config that is None is still handed to inline_deploy_topology, which raises
        noneConfig == /\ stop # 0
                      /\ plan[stop].f = "load_config_from_topology_json"
                      /\ Outcome(env, plan[stop]) = "no"
    IN [res |-> IF stop = 0 THEN Response("booting", "sandbox is booting")
                ELSE IF stop <= first THEN Response("unknown", "Exception")
                ELSE Response("unknown", "Caught Exception"),
        trace |-> IF noneConfig
                  THEN DeployTrace(env, plan) \o << P("inline_deploy_topology", t.id, "") >>
                  ELSE DeployTrace(env, plan),
        id |-> t.id,
        doms |-> DomainsAfter(domains, Completed(env, DeployTrace(env, plan))),
        nets |-> NetworksAfter(networks, Completed(env, DeployTrace(env, plan))),
        defs |-> DefinedAfter(defined, Completed(env, DeployTrace(env, plan)))]

\* found: the rows Topology.objects.get(name=...) matches; source: the rows
\* Topology.objects.get(pk=clone_id) matches; topo: TopoOld; points: ClonePoints
\* when the clone branch is taken; plan: DeployPlan of topo
start_topology_old(name, clone_id, found, source, topo, points, plan, env) ==
    LET pGet == P("Topology.objects.get", 0, name)
        pGetPk == P("Topology.objects.get_pk", clone_id, "")
        same == [rows |-> topologies, next |-> nextId, cloned |-> FALSE]
        untouched == [id |-> 0, doms |-> domains, nets |-> networks, defs |-> defined] @@ same
    IN  IF name = Absent
        THEN [res |-> Response("unknown", "Invalid parameters in POST"), trace |-> << >>]
             @@ untouched
        ELSE IF Outcome(env, pGet) = "raise" \/ Cardinality(found) > 1
        THEN [res |-> Escaped, trace |-> << pGet >>] @@ untouched
        ELSE IF found # {}
        THEN [trace |-> << pGet >> \o DeployOld(CHOOSE x \in topo : TRUE, plan, env).trace]
             @@ DeployOld(CHOOSE x \in topo : TRUE, plan, env) @@ same
        ELSE IF source = {}
        THEN [res |-> Escaped, trace |-> << pGet, pGetPk >>] @@ untouched
        ELSE IF FirstRaise(env, points) # 0
        THEN [res |-> Escaped, trace |-> << pGet >> \o MadeUntilRaise(env, points),
              cloned |-> TRUE] @@ untouched
        ELSE [trace |-> << pGet >> \o points \o DeployOld(CHOOSE x \in topo : TRUE, plan, env).trace]
             @@ DeployOld(CHOOSE x \in topo : TRUE, plan, env)
             @@ [rows |-> topologies \cup topo, next |-> nextId + 1, cloned |-> TRUE]

StartTopologyOld ==
    /\ last.op = "idle"
    /\ ncalls < MaxCalls
    /\ \E name \in Names \cup {Absent} : \E found \in {ByName(name)} :
       \* clone_id and script_id are read only when the name is new
       \E clone_id \in (IF found = {} /\ name # Absent THEN 1..nextId ELSE {1}) :
       \E script_id \in (IF found = {} /\ name # Absent THEN ScriptIds ELSE {"0"}) :
       \E source \in {ById(clone_id)} :
       \E topo \in {TopoOld(name, found, source, script_id, ScriptParam)} :
       \E points \in {IF found = {} /\ topo # {}
                      THEN ClonePoints(CHOOSE x \in source : TRUE, name) ELSE << >>} :
       \E plan \in {ForRow(topo, LAMBDA t : DeployPlan(t, domains, networks), << >>)} :
       \E env \in DeployEnvs(<< P("Topology.objects.get", 0, name),
                                P("Topology.objects.get_pk", clone_id, "") >> \o points, plan) :
       \E r \in {start_topology_old(name, clone_id, found, source, topo, points, plan, env)} :
          /\ last' = Call("start_topology_old", name, script_id, clone_id,
                          Seen(env, r.trace), r.res, r.trace, r.id)
                     @@ [domain_list |-> get_domains_for_topology(domains, r.id)]
          /\ topologies' = r.rows
          /\ nextId' = r.next
          /\ domains' = r.doms
          /\ networks' = r.nets
          /\ defined' = r.defs
    /\ ncalls' = ncalls + 1
    /\ UNCHANGED inflight

\* ------------------------------------------------------------------------
\* configure_topology
\* ------------------------------------------------------------------------

\* apiUtils.get_domain_status_for_topology(topo.id): "running" when every domain
\* of the topology is running
get_domain_status_for_topology(doms, id) ==
    IF \A a \in DOMAIN doms : a[1] = id => doms[a] = "running"
    THEN "running" ELSE "powered off"

\* the entry check as a bug would have it: the status is never compared
NotRunning_Skipped(doms, id) == FALSE

\* `if apiUtils.get_domain_status_for_topology(topo.id) != "running":`
NotRunning(doms, id) == get_domain_status_for_topology(doms, id) # "running"

\* `if script_id != 0:` on the POST value
ScriptGiven(script_id) == ~PyEq(PyStr(script_id), PyInt(0))

\* the calls the loop body makes for one entry of raw_json
ConfigureNode(id, e, script_id) ==
    IF ~e.wistarVm THEN << >>
    ELSE IF e.type = "linux"
    THEN << P("preconfig_linux_domain", id, e.label) >>
         \o (IF ScriptGiven(script_id)
             THEN << P("Script.objects.get", id, e.label),
                     P("push_remote_script", id, e.label),
                     P("execute_cli", id, e.label) >>
             ELSE << >>)
    ELSE IF e.type = "junos"
    THEN << P("preconfig_junos_domain", id, e.label) >>
    ELSE << >>

\* the calls of the loop over raw_json when nothing goes wrong
RECURSIVE ConfigurePlan(_, _, _)
ConfigurePlan(id, doc, script_id) ==
    IF doc = << >> THEN << >>
    ELSE ConfigureNode(id, Head(doc), script_id) \o ConfigurePlan(id, Tail(doc), script_id)

\* the calls made inside the inner try of the linux branch
InnerTry == {"preconfig_linux_domain", "Script.objects.get", "push_remote_script", "execute_cli"}

\* found: the rows Topology.objects.get(name=...) matches; plan: ConfigurePlan
\* of the row found
configure_topology(name, found, plan, env) ==
    LET pGet == P("Topology.objects.get", 0, name)
        id == (CHOOSE x \in found : TRUE).id
        head == << pGet, P("get_domain_status_for_topology", id, "") >>
        \* Script.objects.get raises DoesNotExist when it finds no script
        stop == FirstBad(env, plan)
    IN  IF name = Absent
        THEN [res |-> Response("unknown", "Invalid parameters in POST HERE"),
              trace |-> << >>, id |-> 0]
        ELSE IF Outcome(env, pGet) = "raise" \/ Cardinality(found) > 1
        THEN [res |-> Escaped, trace |-> << pGet >>, id |-> 0]
        ELSE IF found = {}
        THEN [res |-> Response("unknown", "Sandbox doesn't exist!"),
              trace |-> << pGet >>, id |-> 0]
        ELSE IF Outcome(env, P("get_domain_status_for_topology", id, "")) = "raise"
        THEN [res |-> Escaped, trace |-> head, id |-> id]
        ELSE IF NotRunning(domains, id)
        THEN [res |-> Response("unknown", "Not all domains are running"),
              trace |-> head, id |-> id]
        ELSE IF Outcome(env, P("json.loads", id, "")) = "raise"
        THEN [res |-> Escaped, trace |-> head \o << P("json.loads", id, "") >>, id |-> id]
        ELSE IF stop = 0
        THEN [res |-> Response("configured", "All sandbox nodes configured"),
              trace |-> head \o << P("json.loads", id, "") >> \o plan, id |-> id]
        ELSE [res |-> IF plan[stop].f \in InnerTry
                      THEN Response("unknown", "Could not configure domain")
                      ELSE Escaped,
              trace |-> head \o << P("json.loads", id, "") >> \o SubSeq(plan, 1, stop),
              id |-> id]

ConfigureTopology ==
    /\ last.op = "idle"
    /\ ncalls < MaxCalls
    /\ \E name \in Names \cup {Absent} : \E script_id \in ScriptIds :
       \E found \in {ByName(name)} :
       \E plan \in {ForRow(found, LAMBDA t : ConfigurePlan(t.id, t.json, script_id), << >>)} :
       \E env \in Envs(<< P("Topology.objects.get", 0, name) >>
                       \o ForRow(found, LAMBDA t : << P("get_domain_status_for_topology", t.id, ""),
                                                      P("json.loads", t.id, "") >>, << >>)
                       \o plan,
                       {p \in Range(plan) : p.f = "Script.objects.get"}) :
       \E r \in {configure_topology(name, found, plan, env)} :
          last' = Call("configure_topology", name, script_id, 0, Seen(env, r.trace),
                       r.res, r.trace, r.id)
    /\ ncalls' = ncalls + 1
    /\ UNCHANGED inflight
    /\ UNCHANGED << topologies, nextId, domains, networks, defined >>

\* ------------------------------------------------------------------------
\* delete_topology
\* ------------------------------------------------------------------------

\* the calls the loop body makes for one domain of domain_list
DeleteDomain(id, label, env) ==
    << P("get_image_for_domain", id, label), P("undefine_domain", id, label) >>
    \o (IF /\ Outcome(env, P("undefine_domain", id, label)) = "ok"
           /\ Outcome(env, P("get_image_for_domain", id, label)) = "ok"
        THEN << P("remove_instance", id, label) >>
        ELSE << >>)
    \o << P("get_management_interface_mac_for_domain", id, label),
          P("release_management_ip_for_mac", id, label) >>

RECURSIVE DeleteDomains(_, _, _)
DeleteDomains(id, labels, env) ==
    IF labels = << >> THEN << >>
    ELSE DeleteDomain(id, Head(labels), env) \o DeleteDomains(id, Tail(labels), env)

\* every call of the teardown of topology id when nothing raises; network_list
\* and domain_list are the labels the hypervisor lists for the prefix
DeletePlan(id, network_list, domain_list, env) ==
    LET should_reconfigure_dhcp ==
            \E i \in 1..Len(domain_list) :
                Outcome(env, P("release_management_ip_for_mac", id, domain_list[i])) = "ok"
    IN  << P("get_networks_for_topology", id, "") >>
        \o [i \in 1..Len(network_list) |-> P("undefine_network", id, network_list[i])]
        \o << P("get_domains_for_topology", id, "") >>
        \o DeleteDomains(id, domain_list, env)
        \o (IF should_reconfigure_dhcp THEN << P("reload_dhcp_config", 0, "") >> ELSE << >>)
        \o << P("Topology.delete", id, "") >>

\* the except ObjectDoesNotExist clause as a bug would have it: reported as a failure
AlreadyDeleted_Unknown == Response("unknown", "topology does not exist")

\* the except ObjectDoesNotExist clause: nothing to delete is a success
AlreadyDeleted == Response("deleted", "topology does not exist")

\* found: the rows Topology.objects.get(name=...) matches; plan: DeletePlan of
\* the row found
delete_topology(name, found, plan, env) ==
    LET pGet == P("Topology.objects.get", 0, name)
        same == [rows |-> topologies, doms |-> domains, nets |-> networks]
    IN  IF name = Absent
        THEN [res |-> Response("unknown", "Invalid parameters in POST HERE"),
              trace |-> << >>, id |-> 0] @@ same
        ELSE IF Outcome(env, pGet) = "raise" \/ Cardinality(found) > 1
        THEN [res |-> Escaped, trace |-> << pGet >>, id |-> 0] @@ same
        ELSE IF found = {}
        THEN [res |-> AlreadyDeleted, trace |-> << pGet >>, id |-> 0] @@ same
        ELSE [res |-> IF FirstRaise(env, plan) = 0
                      THEN Response("deleted", "topology deleted")
                      ELSE Escaped,
              trace |-> << pGet >> \o MadeUntilRaise(env, plan),
              id |-> (CHOOSE x \in found : TRUE).id,
              rows |-> IF FirstRaise(env, plan) = 0 THEN topologies \ found ELSE topologies,
              doms |-> DomainsAfter(domains, Completed(env, MadeUntilRaise(env, plan))),
              nets |-> NetworksAfter(networks, Completed(env, MadeUntilRaise(env, plan)))]

\* the calls a teardown can make, in call order (NoEnv: every image is
\* removed and the DHCP configuration is reloaded)
DeleteOrder(id, network_list, domain_list) ==
    DeletePlan(id, network_list, domain_list, NoEnv)

DeleteTopology ==
    /\ last.op = "idle"
    /\ ncalls < MaxCalls
    /\ \E name \in Names \cup {Absent} : \E found \in {ByName(name)} :
       \E network_list \in {ForRow(found, LAMBDA t : get_networks_for_topology(networks, t.id),
                                   << >>)} :
       \E domain_list \in {ForRow(found, LAMBDA t :
                                   SelectSeq(LabelOrder, LAMBDA l : << t.id, l >> \in DOMAIN domains),
                                   << >>)} :
       \E all \in {ForRow(found, LAMBDA t : DeleteOrder(t.id, network_list, domain_list), << >>)} :
       \E env \in Envs(<< P("Topology.objects.get", 0, name) >> \o all,
                       {p \in Range(all) : p.f \in {"get_image_for_domain", "undefine_domain",
                                                    "release_management_ip_for_mac"}}) :
       \E plan \in {ForRow(found, LAMBDA t : DeletePlan(t.id, network_list, domain_list, env),
                           << >>)} :
       \E r \in {delete_topology(name, found, plan, env)} :
          /\ last' = Call("delete_topology", name, "", 0, Seen(env, r.trace),
                          r.res, r.trace, r.id)
          /\ topologies' = r.rows
          /\ domains' = r.doms
          /\ networks' = r.nets
    /\ ncalls' = ncalls + 1
    /\ UNCHANGED inflight
    /\ UNCHANGED << nextId, defined >>

\* ------------------------------------------------------------------------
\* The response leaves the view; the next request can be served
\* ------------------------------------------------------------------------

Respond ==
    /\ last.op # "idle"
    /\ last' = Idle
    /\ UNCHANGED << topologies, nextId, domains, networks, defined, ncalls, inflight >>

Init ==
    /\ topologies = {}
    /\ nextId = 1
    /\ domains = << >>
    /\ networks = << >>
    /\ defined = << >>
    /\ ncalls = 0
    /\ last = Idle
    /\ inflight = << >>

Next ==
    \/ ImportTopologyJson
    \/ GetTopologyInventory
    \/ GetTopologyStatus
    \/ StartTopology
    \/ StartTopologyOld
    \/ ConfigureTopology
    \/ DeleteTopology
    \/ Respond

Spec == Init /\ [][Next]_vars

\* ------------------------------------------------------------------------
\* Properties
\* ------------------------------------------------------------------------

\* positions of the trace whose call is one of F
At(trace, F) == {i \in 1..Len(trace) : trace[i].f \in F}

\* how often the call p occurs in the trace
Count(trace, p) == Cardinality({i \in 1..Len(trace) : trace[i] = p})

\* the hypervisor domains of topology id
DomainsOf(id) == {a \in DOMAIN domains : a[1] = id}

NetworksOf(id) == {a \in DOMAIN networks : a[1] = id}

\* a status call that found its topology row
StatusFound == last.op = "get_topology_status" /\ last.topologyId # 0

Gate1 == {"get_domains_for_topology"}

Gate3 == {"is_linux_device_at_prompt"}

Gate4 == {"check_ip"}

InstantiateCalls ==
    {"load_config_from_topology_json", "inline_deploy_topology", "define_network", "define_domain"}

StartCalls == {"start_network", "start_domain"}

DeployOps == {"start_topology", "start_topology_old"}

\* C1: get_topology_status evaluates the gates in the order deploy, boot,
\* console, configured and stops at the first failing one: the gates reported
\* ready form a prefix of that order, overall is ready only if all four are,
\* the probes are made in gate order, a probe that fails is the last call made,
\* no probe of a later gate is made once a gate is not ready, and a topology
\* without domains is answered (not raised) with deploy and overall not ready.
C1_GatedPipeline ==
    StatusFound =>
        LET r == last.res
            tr == last.trace
        IN  /\ r.kind = "response"
            /\ r.boot_status = "ready" => r.deploy_status = "ready"
            /\ r.console_status = "ready" => r.boot_status = "ready"
            /\ r.configured_status = "ready" => r.console_status = "ready"
            /\ r.status = "ready" =>
                  /\ r.deploy_status = "ready" /\ r.boot_status = "ready"
                  /\ r.console_status = "ready" /\ r.configured_status = "ready"
            /\ \A i \in At(tr, Gate3) : \A j \in At(tr, Gate1) : j < i
            /\ \A i \in At(tr, Gate4) : \A j \in At(tr, Gate1 \cup Gate3) : j < i
            /\ \A i \in 1..Len(tr) : Outcome(last.env, tr[i]) # "ok" => i = Len(tr)
            /\ r.boot_status # "ready" => At(tr, Gate3 \cup Gate4 \cup {"json.loads"}) = {}
            /\ r.console_status # "ready" => At(tr, Gate4) = {}
            /\ DomainsOf(last.topologyId) = {} =>
                  /\ r.deploy_status = "not ready" /\ r.status = "not ready"
                  /\ At(tr, Gate3 \cup Gate4) = {}

\* a status call stopped at the fourth gate, after the first three passed
C1_Witness ==
    /\ StatusFound
    /\ last.res.console_status = "ready"
    /\ last.res.configured_status = "not ready"
    /\ last.res.message = "not all instances have a management IP"

\* every domain of the topology is running, and there is one
AllRunning(id) == DomainsOf(id) # {} /\ \A a \in DomainsOf(id) : domains[a] = "running"

\* the oracle of the call in progress: no call raised, none answered False
AllOk == last.env = NoEnv

\* exactly one probe, of the gate whose calls are F, answered False; none raised
OneFailed(F) ==
    /\ last.env.fault = NoFault
    /\ Cardinality(last.env.neg) = 1
    /\ \A p \in last.env.neg : p.f \in F

\* C2: when the topology has domains, all running, every console probe
\* succeeds and every address passes the check, the status is ready; with one
\* of these conditions flipped it is not ready and the message is the one of
\* the gate that failed.
C2_ReadyIffAllGates ==
    StatusFound =>
        LET r == last.res
            id == last.topologyId
        IN  /\ (AllRunning(id) /\ AllOk) =>
                  r.status = "ready" /\ r.message = "Sandbox is fully booted and available"
            /\ (DomainsOf(id) = {} /\ AllOk) =>
                  r.status = "not ready" /\ r.message = "not yet deployed!"
            /\ (DomainsOf(id) # {} /\ ~AllRunning(id) /\ AllOk) =>
                  r.status = "not ready" /\ r.message = "not all instances are started"
            /\ (AllRunning(id) /\ OneFailed(Gate3)) =>
                  r.status = "not ready" /\ r.message = "not all instances have a console ready"
            /\ (AllRunning(id) /\ OneFailed(Gate4)) =>
                  r.status = "not ready" /\ r.message = "not all instances have a management IP"
            /\ r.status = "ready" => AllRunning(id) /\ AllOk

\* a status call on a fully started topology whose probes all succeed, with a
\* console probe among them
C2_Witness ==
    /\ StatusFound
    /\ AllRunning(last.topologyId)
    /\ AllOk
    /\ At(last.trace, Gate3) # {}
    /\ last.res.status = "ready"

\* C3: an error raised while the gates are evaluated is caught: the call
\* answers not ready with the generic message, the gates that had passed
\* before the error stay ready and the later ones stay not ready.
C3_ErrorKeepsPartialStatus ==
    (StatusFound /\ last.env.fault # NoFault) =>
        LET r == last.res
            f == last.env.fault.f
        IN  /\ r.kind = "response"
            /\ r.status = "not ready"
            /\ r.message = "Caught Exception!"
            /\ r.deploy_status = (IF f \in Gate1 THEN "not ready" ELSE "ready")
            /\ r.boot_status = (IF f \in Gate1 THEN "not ready" ELSE "ready")
            /\ r.console_status = (IF f \in Gate4 THEN "ready" ELSE "not ready")
            /\ r.configured_status = "not ready"
            /\ f \notin Gate1 => AllRunning(last.topologyId)

\* an address check raised after the first three gates had passed
C3_Witness ==
    /\ StatusFound
    /\ last.env.fault.f = "check_ip"
    /\ last.res.console_status = "ready"
    /\ last.res.message = "Caught Exception!"

\* C4: a deploy call (start_topology, start_topology_old) that finds a domain
\* of the topology makes no instantiation call and, unless a call raises,
\* starts every network and domain that exists; a domain is defined only by a
\* deploy that found no domain of the topology, and only once by that deploy.
C4_InstantiateOnlyWhenNoDomains ==
    [][(last'.op \in DeployOps /\ last'.topologyId # 0) =>
          /\ DomainsOf(last'.topologyId) # {} =>
                /\ At(last'.trace, InstantiateCalls) = {}
                /\ last'.env.fault = NoFault =>
                      /\ \A a \in DomainsOf(last'.topologyId) :
                            Count(last'.trace, P("start_domain", a[1], a[2])) = 1
                      /\ \A a \in NetworksOf(last'.topologyId) :
                            Count(last'.trace, P("start_network", a[1], a[2])) = 1
          /\ DomainsOf(last'.topologyId) = {} =>
                At(last'.trace, {"inline_deploy_topology"}) # {}
                \/ last'.env # NoEnv
          /\ \A a \in DOMAIN defined' :
                (a \notin DOMAIN defined \/ defined'[a] # defined[a]) =>
                   /\ DomainsOf(a[1]) = {}
                   /\ defined'[a] = (IF a \in DOMAIN defined THEN defined[a] ELSE 0) + 1]_vars

\* a second deploy of a topology: its domains are started, none is defined
C4_Witness ==
    /\ last.op \in DeployOps
    /\ last.res.status \in {"True", "booting"}
    /\ At(last.trace, {"start_domain"}) # {}
    /\ At(last.trace, InstantiateCalls) = {}

\* C5: in one deploy call no start_domain precedes a start_network and no
\* start call precedes a call of the instantiation step.
C5_CreateThenNetworksThenDomains ==
    last.op \in DeployOps =>
        LET tr == last.trace
        IN  /\ \A i \in At(tr, {"start_domain"}) : \A j \in At(tr, {"start_network"}) : j < i
            /\ \A i \in At(tr, StartCalls) : \A j \in At(tr, InstantiateCalls) : j < i
            /\ At(tr, {"start_domain"}) # {} =>
                  \A a \in NetworksOf(last.topologyId) : networks[a] = "active"

\* a deploy that defined and started both networks and domains
C5_Witness ==
    /\ last.op \in DeployOps
    /\ At(last.trace, {"define_network"}) # {}
    /\ At(last.trace, {"define_domain"}) # {}
    /\ At(last.trace, {"start_network"}) # {}
    /\ Cardinality(At(last.trace, {"start_domain"})) > 1

ConfigureCalls ==
    {"preconfig_linux_domain", "preconfig_junos_domain", "Script.objects.get",
     "push_remote_script", "execute_cli"}

ConfigureFound == last.op = "configure_topology" /\ last.topologyId # 0

\* C6: configure_topology checks once, at entry, that every domain of the
\* topology is running; if not, it answers the failure "Not all domains are
\* running" and makes no preconfiguration, script fetch, push or remote command.
C6_FailFastWhenNotRunning ==
    ConfigureFound =>
        /\ Cardinality(At(last.trace, {"get_domain_status_for_topology"})) = 1
        /\ \A i \in At(last.trace, ConfigureCalls) :
              \A j \in At(last.trace, {"get_domain_status_for_topology"}) : j < i
        /\ (\E a \in DomainsOf(last.topologyId) : domains[a] # "running")
           /\ last.env.fault.f # "get_domain_status_for_topology" =>
              /\ last.res = Response("unknown", "Not all domains are running")
              /\ At(last.trace, ConfigureCalls \cup {"json.loads"}) = {}

\* configure called on a topology with a domain that is shut off
C6_Witness ==
    /\ ConfigureFound
    /\ \E a \in DomainsOf(last.topologyId) : domains[a] = "shut off"
    /\ last.res.message = "Not all domains are running"

\* C7 (as claimed): when a node's configuration call raises, configure_topology
\* answers a failure carrying that node's error, the raising call is the last
\* one made, and "configured" is answered only when no call raised.
C7_AbortWithFailureResult ==
    (ConfigureFound /\ last.env.fault.f \in ConfigureCalls) =>
        /\ last.res.kind = "response"
        /\ last.res.status = "unknown"
        /\ last.res.message = "Could not configure domain"
        /\ last.trace[Len(last.trace)] = last.env.fault

\* the 'no script' sentinel (0) as it arrives in request.POST
NoScript == "0"

\* the linux managed nodes of the topology the call in progress is about
LinuxNodes ==
    UNION {{e.label : e \in Range(LinuxEntries(t.json))} : t \in ById(last.topologyId)}

\* C8 (as claimed): with the 'no script' sentinel no script is fetched, pushed
\* or executed; in a successful call each linux node's script is fetched,
\* pushed and executed exactly once iff the script id is not the sentinel.
C8_ScriptIffNotSentinel ==
    ConfigureFound =>
        /\ last.script_id = NoScript =>
              At(last.trace, {"Script.objects.get", "push_remote_script", "execute_cli"}) = {}
        /\ last.res.status = "configured" =>
              \A l \in LinuxNodes : \A f \in {"Script.objects.get", "push_remote_script", "execute_cli"} :
                 Count(last.trace, P(f, last.topologyId, l))
                    = (IF last.script_id = NoScript THEN 0 ELSE 1)

\* C9: delete_topology on a name without a topology row answers "deleted",
\* calls nothing but the lookup and changes nothing; after a delete that
\* answered "deleted" no row has the name, so a second delete is such a call.
C9_TeardownIdempotent ==
    [][(last'.op = "delete_topology" /\ last'.name # Absent) =>
          /\ (ByName(last'.name) = {} /\ last'.env.fault = NoFault) =>
                /\ last'.res.kind = "response"
                /\ last'.res.status = "deleted"
                /\ last'.trace = << P("Topology.objects.get", 0, last'.name) >>
                /\ UNCHANGED << topologies, nextId, domains, networks, defined >>
          /\ last'.res.status = "deleted" =>
                {t \in topologies' : t.name = last'.name} = {}]_vars

\* a delete of a name that has no row, after a topology was created and deleted
C9_Witness ==
    /\ last.op = "delete_topology"
    /\ last.res = Response("deleted", "topology does not exist")
    /\ topologies = {}
    /\ nextId > 1

\* the release calls of the trace that answered True
Released == {i \in At(last.trace, {"release_management_ip_for_mac"}) :
                Outcome(last.env, last.trace[i]) = "ok"}

\* C10 (as claimed): in one delete_topology call reload_dhcp_config is called
\* once if a release answered True and not at all otherwise, after the last
\* domain was processed.
C10_OneReloadIffReleased ==
    (last.op = "delete_topology" /\ last.topologyId # 0) =>
        /\ Cardinality(At(last.trace, {"reload_dhcp_config"}))
              = (IF Released # {} THEN 1 ELSE 0)
        /\ \A i \in At(last.trace, {"reload_dhcp_config"}) :
              \A j \in At(last.trace, {"release_management_ip_for_mac", "undefine_domain"}) : j < i

\* the calls delete_topology makes on one network or one domain
PerObjectCalls ==
    {"undefine_network", "get_image_for_domain", "undefine_domain", "remove_instance",
     "get_management_interface_mac_for_domain", "release_management_ip_for_mac"}

\* C11 (as claimed): in one delete_topology call the undefine of every network
\* and every domain of the topology is attempted, whatever failed on an earlier
\* object of the call: an object the call leaves behind, other than the one a
\* collaborator raised for, is one whose undefine was called and failed.
C11_BestEffortSweep ==
    (/\ last.op = "delete_topology"
     /\ last.topologyId # 0
     /\ last.env.fault = NoFault \/ last.env.fault.f \in PerObjectCalls) =>
        /\ \A a \in NetworksOf(last.topologyId) \ {last.env.fault.a} :
              P("undefine_network", a[1], a[2]) \in Range(last.trace)
        /\ \A a \in DomainsOf(last.topologyId) \ {last.env.fault.a} :
              P("undefine_domain", a[1], a[2]) \in Range(last.trace)

\* the step is a start_topology_old call that cloned and saved a new topology
Cloned ==
    /\ last'.op = "start_topology_old"
    /\ P("Topology.save", nextId, last'.name) \in Completed(last'.env, last'.trace)

\* the source row and the new row of a step that is Cloned
SourceRow == CHOOSE t \in topologies : t.id = last'.clone_id

NewRow == CHOOSE t \in topologies' : t.id = nextId

\* C12: the document saved by the clone of start_topology_old has as many
\* entries as the source, in the same order; an entry that is not a managed
\* node is equal to the source's, a managed node differs from the source's at
\* most in the last octet of its address and in configScriptId and
\* configScriptParam, which carry the call's script_id and script_param on
\* every managed node; the stored source row is unchanged and the new row is
\* the only row added.
C12_CloneIsomorphic ==
    [][Cloned =>
          /\ ById(last'.clone_id) # {}
          /\ topologies' = topologies \cup {NewRow}
          /\ NewRow \notin topologies
          /\ SourceRow \in topologies'
          /\ NewRow.name = last'.name
          /\ Len(NewRow.json) = Len(SourceRow.json)
          /\ \A i \in 1..Len(SourceRow.json) :
                IF SourceRow.json[i].wistarVm
                THEN NewRow.json[i] =
                        [SourceRow.json[i] EXCEPT !.ip.host = NewRow.json[i].ip.host,
                                                  !.configScriptId = last'.script_id,
                                                  !.configScriptParam = ScriptParam]
                ELSE NewRow.json[i] = SourceRow.json[i]]_vars

\* a clone, with a script id other than the source's, of a topology that has
\* two managed nodes and an entry that is not a managed node
C12_Witness ==
    /\ last.op = "start_topology_old"
    /\ last.script_id = "5"
    /\ \E t \in topologies : \E s \in topologies :
          /\ t.id = last.topologyId /\ s.id = last.clone_id /\ s.id # t.id
          /\ P("Topology.save", t.id, t.name) \in Range(last.trace)
          /\ Len(VmEntries(t.json)) = 2 /\ Len(ConnEntries(t.json)) = 1
          /\ \A i \in 1..Len(t.json) : t.json[i].wistarVm => t.json[i].configScriptId = "5"
          /\ \E i \in 1..Len(s.json) : s.json[i].wistarVm /\ s.json[i].configScriptId = "0"

\* C13: in one clone every managed node keeps the first three octets of its
\* address and gets a last octet that is at least the start offset, was not
\* used by any stored topology when the call began, and differs from the last
\* octet of every other managed node of the clone.
C13_FreshDistinctAddresses ==
    [][Cloned =>
          LET new == VmEntries(NewRow.json)
              old == VmEntries(SourceRow.json)
          IN  \A i \in 1..Len(new) :
                 /\ new[i].ip.net = old[i].ip.net
                 /\ new[i].ip.host >= StartOffset
                 /\ new[i].ip.host \notin get_used_ips(topologies)
                 /\ \A j \in 1..Len(new) : i # j => new[i].ip.host # new[j].ip.host]_vars

\* a clone of two managed nodes made when the start offset and the second
\* octet after it were used: the nodes get the octets in between and after
C13_Witness ==
    /\ last.op = "start_topology_old"
    /\ \E t \in topologies : \E s \in topologies :
          /\ t.id = last.topologyId /\ s.id = last.clone_id /\ s.id # t.id
          /\ P("Topology.save", t.id, t.name) \in Range(last.trace)
          /\ {e.ip.host : e \in Range(VmEntries(s.json))} = {StartOffset, StartOffset + 2}
          /\ {e.ip.host : e \in Range(VmEntries(t.json))} = {StartOffset + 1, StartOffset + 3}

\* C14 (as claimed): whatever collaborator fails, at whatever step, every
\* operation answers a structured result with a status and a message: no
\* call ends with the exception leaving the view.
C14_NoExceptionEscapes ==
    (last.op # "idle" /\ last.env.fault # NoFault) => last.res.kind = "response"

\* C15 (as claimed): no two stored topologies have the same name.
C15_NameUnique ==
    \A t \in topologies : \A u \in topologies : t.name = u.name => t.id = u.id

\* C18 (as claimed): in delete_topology the image path and the management MAC
\* of a domain are both read before that domain is undefined, and the image
\* removal and the release of the reservation come after the undefine.
C18_ReadBeforeUndefine ==
    last.op = "delete_topology" =>
        \A i \in At(last.trace, {"undefine_domain"}) :
            LET a == last.trace[i].a
                Pos(f) == {j \in At(last.trace, {f}) : last.trace[j].a = a}
            IN  /\ \E j \in Pos("get_image_for_domain") : j < i
                /\ \E j \in Pos("get_management_interface_mac_for_domain") : j < i
                /\ \A j \in Pos("remove_instance") \cup Pos("release_management_ip_for_mac") : i < j

\* the topology has domains, some of them running and some not
PartlyRunning(id) ==
    /\ \E a \in DomainsOf(id) : domains[a] = "running"
    /\ \E a \in DomainsOf(id) : domains[a] # "running"

\* C20: a deploy of a topology whose domains exist and are only partly
\* running, in which no collaborator fails, creates no object, calls start
\* once for every network and every domain of the topology (the running ones
\* included), answers success, and leaves every domain of the topology running.
C20_DeployResumable ==
    [][(/\ last'.op \in DeployOps
        /\ last'.topologyId # 0
        /\ PartlyRunning(last'.topologyId)
        /\ last'.env = NoEnv) =>
          /\ At(last'.trace, InstantiateCalls) = {}
          /\ \A a \in DomainsOf(last'.topologyId) :
                Count(last'.trace, P("start_domain", a[1], a[2])) = 1
          /\ \A a \in NetworksOf(last'.topologyId) :
                Count(last'.trace, P("start_network", a[1], a[2])) = 1
          /\ last'.res \in {Response("True", "Topology started!"),
                            Response("booting", "sandbox is booting")}
          /\ DOMAIN domains' = DOMAIN domains
          /\ DOMAIN networks' = DOMAIN networks
          /\ defined' = defined
          /\ \A a \in DomainsOf(last'.topologyId) : domains'[a] = "running"]_vars

\* a deploy that found one domain running and one shut off, and succeeded
C20_Witness ==
    /\ last.op \in DeployOps
    /\ last.env = NoEnv
    /\ \E i \in 1..Len(last.domain_list) : last.domain_list[i].state = "running"
    /\ \E i \in 1..Len(last.domain_list) : last.domain_list[i].state = "shut off"
    /\ last.res.status \in {"True", "booting"}
    /\ \A a \in DomainsOf(last.topologyId) : domains[a] = "running"

\* ------------------------------------------------------------------------
\* Concurrent requests.  The views hold no lock and run in several workers:
\* between two collaborator calls of one request, another request can run.
\* A request keeps the handler's local variables; each step below is the
\* stretch of one handler between two reads or writes of the shared state
\* (Topology table, hypervisor).
\* ------------------------------------------------------------------------

MaxRequests == 2

ConcurrentOps == {"start_topology", "start_topology_old", "delete_topology"}

NoRow == [id |-> 0, name |-> "", json |-> << >>]

\* a request that has just entered its view
Request(op, name, clone_id, script_id) ==
    [op |-> op, name |-> name, clone_id |-> clone_id, script_id |-> script_id,
     pc |-> "lookup", topo |-> NoRow, source |-> NoRow, all_used_ips |-> {},
     domain_list |-> << >>, should_reconfigure_dhcp |-> FALSE,
     trace |-> << >>, res |-> Response("-", "-")]

\* the request reaches its return statement
Return(r, res, calls) == [r EXCEPT !.pc = "done", !.res = res, !.trace = @ \o calls]

\* the request goes on to the step `pc`
Goto(r, pc, calls) == [r EXCEPT !.pc = pc, !.trace = @ \o calls]

Arrive ==
    /\ Len(inflight) < MaxRequests
    /\ \E op \in ConcurrentOps : \E name \in Names :
          inflight' = Append(inflight,
                             Request(op, name,
                                     IF op = "start_topology_old" THEN 1 ELSE 0,
                                     IF op = "start_topology_old" THEN "5" ELSE ""))
    /\ UNCHANGED << topologies, nextId, domains, networks, defined, ncalls, last >>

\* what each view does with the answer of Topology.objects.get(name=...)
AfterLookup(r, found) ==
    LET pGet == << P("Topology.objects.get", 0, r.name) >>
        row == CHOOSE x \in found : TRUE
    IN  IF Cardinality(found) > 1
        THEN Return(r, IF r.op = "start_topology"
                       THEN Response("False", "Could not start topology!")
                       ELSE Escaped, pGet)
        ELSE IF Cardinality(found) = 1
        THEN [Goto(r, IF r.op = "delete_topology" THEN "sweep" ELSE "list", pGet)
                 EXCEPT !.topo = row]
        ELSE IF r.op = "start_topology"
        THEN Return(r, Response("False", "Topology Does not Exist"), pGet)
        ELSE IF r.op = "delete_topology"
        THEN Return(r, AlreadyDeleted, pGet)
        ELSE Goto(r, "clone", pGet)

Lookup(i) ==
    /\ inflight[i].pc = "lookup"
    /\ inflight' = [inflight EXCEPT ![i] = AfterLookup(@, ByName(@.name))]
    /\ UNCHANGED << topologies, nextId, domains, networks, defined, ncalls, last >>

\* the used list the allocation loop works on, as a bug would have it: read
\* again from the table when the clone is built
AllocationBase_Reread(all_used_ips, rows) == get_used_ips(rows)

\* the used list the allocation loop works on: the list read once by
\* `all_used_ips = wistarUtils.get_used_ips()`, whatever was saved since
AllocationBase(all_used_ips, rows) == all_used_ips

\* the clone branch up to the used list: the source row and the used addresses are read
CloneRead(i) ==
    LET r == inflight[i]
        pGetPk == P("Topology.objects.get_pk", r.clone_id, "")
    IN  /\ r.pc = "clone"
        /\ inflight' =
              [inflight EXCEPT ![i] =
                  IF ById(r.clone_id) = {}
                  THEN Return(r, Escaped, << pGetPk >>)
                  ELSE [Goto(r, "save", << pGetPk, P("get_used_ips", 0, "") >>)
                           EXCEPT !.source = CHOOSE x \in ById(r.clone_id) : TRUE,
                                  !.all_used_ips = get_used_ips(topologies)]]
        /\ UNCHANGED << topologies, nextId, domains, networks, defined, ncalls, last >>

\* the rest of the clone branch: the loop over raw_json and topo.save()
CloneSave(i) ==
    LET r == inflight[i]
        row == [id |-> nextId, name |-> r.name,
                json |-> CloneEntries(r.source.json,
                                      AllocationBase(r.all_used_ips, topologies),
                                      r.script_id, ScriptParam)]
    IN  /\ r.pc = "save"
        /\ topologies' = topologies \cup {row}
        /\ nextId' = nextId + 1
        /\ inflight' = [inflight EXCEPT ![i] =
                           [Goto(r, "list", << P("json.loads", r.source.id, ""),
                                               P("Topology.save", nextId, r.name) >>)
                               EXCEPT !.topo = row]]
        /\ UNCHANGED << domains, networks, defined, ncalls, last >>

\* the step after the domain list was read, as a bug would have it: the list
\* is not looked at
AfterList_Unguarded(domain_list) == "instantiate"

\* `if len(domain_list) == 0:` on the list the request itself has read
AfterList(domain_list) == IF Len(domain_list) = 0 THEN "instantiate" ELSE "start"

\* domain_list = libvirtUtils.get_domains_for_topology(prefix), first call
ListDomains(i) ==
    LET r == inflight[i]
        listed == get_domains_for_topology(domains, r.topo.id)
    IN  /\ r.pc = "list"
        /\ inflight' = [inflight EXCEPT ![i] =
                           [Goto(r, AfterList(listed),
                                 << P("get_domains_for_topology", r.topo.id, "") >>)
                               EXCEPT !.domain_list = listed]]
        /\ UNCHANGED << topologies, nextId, domains, networks, defined, ncalls, last >>

\* load_config_from_topology_json and av.inline_deploy_topology(config)
Instantiate(i) ==
    LET r == inflight[i]
        calls == << P("load_config_from_topology_json", r.topo.id, "") >>
                 \o inline_deploy_topology(r.topo, domains, networks)
    IN  /\ r.pc = "instantiate"
        /\ domains' = DomainsAfter(domains, Range(calls))
        /\ networks' = NetworksAfter(networks, Range(calls))
        /\ defined' = DefinedAfter(defined, Range(calls))
        /\ inflight' = [inflight EXCEPT ![i] = Goto(r, "start", calls)]
        /\ UNCHANGED << topologies, nextId, ncalls, last >>

\* the second query of networks and domains, and the two start loops
StartAll(i) ==
    LET r == inflight[i]
        calls == StartPlan(r.topo, domains, networks)
    IN  /\ r.pc = "start"
        /\ domains' = DomainsAfter(domains, Range(calls))
        /\ networks' = NetworksAfter(networks, Range(calls))
        /\ inflight' = [inflight EXCEPT ![i] =
                           Return(r, IF r.op = "start_topology"
                                     THEN Response("True", "Topology started!")
                                     ELSE Response("booting", "sandbox is booting"), calls)]
        /\ UNCHANGED << topologies, nextId, defined, ncalls, last >>

\* the step after the two loops as a bug would have it: the record is deleted
\* without the DHCP reload
AfterSweep_NoReload(should_reconfigure_dhcp) == "delete_record"

\* `if should_reconfigure_dhcp: osUtils.reload_dhcp_config()`, then topology.delete()
AfterSweep(should_reconfigure_dhcp) ==
    IF should_reconfigure_dhcp THEN "reload" ELSE "delete_record"

\* the two loops of delete_topology over the networks and the domains the
\* hypervisor lists; released: what release_management_ip_for_mac answers
Sweep(i) ==
    LET r == inflight[i]
        id == r.topo.id
        network_list == get_networks_for_topology(networks, id)
        domain_list == SelectSeq(LabelOrder, LAMBDA l : << id, l >> \in DOMAIN domains)
    IN  /\ r.pc = "sweep"
        /\ \E released \in BOOLEAN :
              LET env == [fault |-> NoFault,
                          neg |-> IF released THEN {}
                                  ELSE {P("release_management_ip_for_mac", id, domain_list[k]) :
                                           k \in 1..Len(domain_list)}]
                  calls == SelectSeq(DeletePlan(id, network_list, domain_list, env),
                                     LAMBDA p : p.f \notin {"reload_dhcp_config", "Topology.delete"})
                  should == \E k \in 1..Len(calls) :
                               /\ calls[k].f = "release_management_ip_for_mac"
                               /\ Outcome(env, calls[k]) = "ok"
              IN  /\ released => Len(domain_list) > 0
                  /\ domains' = DomainsAfter(domains, Completed(env, calls))
                  /\ networks' = NetworksAfter(networks, Completed(env, calls))
                  /\ inflight' = [inflight EXCEPT ![i] =
                                     [Goto(r, AfterSweep(should), calls)
                                         EXCEPT !.should_reconfigure_dhcp = should]]
        /\ UNCHANGED << topologies, nextId, defined, ncalls, last >>

\* osUtils.reload_dhcp_config()
Reload(i) ==
    /\ inflight[i].pc = "reload"
    /\ inflight' = [inflight EXCEPT ![i] =
                       Goto(@, "delete_record", << P("reload_dhcp_config", 0, "") >>)]
    /\ UNCHANGED << topologies, nextId, domains, networks, defined, ncalls, last >>

\* topology.delete() and the response
DeleteRecord(i) ==
    LET r == inflight[i]
    IN  /\ r.pc = "delete_record"
        /\ topologies' = {t \in topologies : t.id # r.topo.id}
        /\ inflight' = [inflight EXCEPT ![i] =
                           Return(r, Response("deleted", "topology deleted"),
                                  << P("Topology.delete", r.topo.id, "") >>)]
        /\ UNCHANGED << nextId, domains, networks, defined, ncalls, last >>

\* what a view answers when the collaborator call it is about to make raises
Raised(r) ==
    IF r.op = "start_topology"
    THEN Response("False", "Could not start topology!")
    ELSE IF r.op = "start_topology_old" /\ r.pc \in {"list", "instantiate"}
    THEN Response("unknown", "Exception")
    ELSE IF r.op = "start_topology_old" /\ r.pc = "start"
    THEN Response("unknown", "Caught Exception")
    ELSE Escaped

\* the next collaborator call of the request raises
Raise(i) ==
    /\ inflight[i].pc # "done"
    /\ inflight' = [inflight EXCEPT ![i] = Return(@, Raised(@), << >>)]
    /\ UNCHANGED << topologies, nextId, domains, networks, defined, ncalls, last >>

\* one topology is stored, deployed and running or not deployed at all
InitConcurrent ==
    LET t == [id |-> 1, name |-> "lab1", json |-> DocLinux]
        done == Range(DeployPlan(t, << >>, << >>))
    IN  /\ topologies = {t}
        /\ nextId = 2
        /\ \E deployed \in BOOLEAN :
              /\ domains = (IF deployed THEN DomainsAfter(<< >>, done) ELSE << >>)
              /\ networks = (IF deployed THEN NetworksAfter(<< >>, done) ELSE << >>)
              /\ defined = (IF deployed THEN DefinedAfter(<< >>, done) ELSE << >>)
        /\ ncalls = 0
        /\ last = Idle
        /\ inflight = << >>

NextConcurrent ==
    \/ Arrive
    \/ \E i \in DOMAIN inflight : Lookup(i)
    \/ \E i \in DOMAIN inflight : CloneRead(i)
    \/ \E i \in DOMAIN inflight : CloneSave(i)
    \/ \E i \in DOMAIN inflight : ListDomains(i)
    \/ \E i \in DOMAIN inflight : Instantiate(i)
    \/ \E i \in DOMAIN inflight : StartAll(i)
    \/ \E i \in DOMAIN inflight : Sweep(i)
    \/ \E i \in DOMAIN inflight : Reload(i)
    \/ \E i \in DOMAIN inflight : DeleteRecord(i)
    \/ \E i \in DOMAIN inflight : Raise(i)

Concurrent == InitConcurrent /\ [][NextConcurrent]_vars

\* the request made the call f
Invoked(r, f) == At(r.trace, {f}) # {}

\* the requests in flight that run the handlers ops
Running(ops) == {i \in DOMAIN inflight : inflight[i].op \in ops}

\* C16: a deploy request decides on the domain list it has read itself and
\* nothing checks again before it creates: it goes through the instantiation
\* exactly when that list was empty, whatever other requests have created
\* since.  (With the witness: two deploys of one topology both read an empty
\* list and both invoke inline_deploy_topology.)
C16_BothDeploysInstantiate ==
    \A i \in Running(DeployOps) :
        LET r == inflight[i]
        IN  /\ r.pc = "instantiate" => Len(r.domain_list) = 0
            /\ (r.pc = "start" \/ r.res.status \in {"True", "booting"}) =>
                  /\ Invoked(r, "inline_deploy_topology") <=> Len(r.domain_list) = 0
                  /\ Cardinality(At(r.trace, {"inline_deploy_topology"})) <= 1

\* two deploy requests of the same topology have both read an empty domain
\* list and have both invoked inline_deploy_topology
C16_Witness ==
    \E i \in Running(DeployOps) : \E j \in Running(DeployOps) :
        /\ i # j
        /\ inflight[i].topo.id # 0
        /\ inflight[i].topo.id = inflight[j].topo.id
        /\ Len(inflight[i].domain_list) = 0 /\ Len(inflight[j].domain_list) = 0
        /\ Invoked(inflight[i], "inline_deploy_topology")
        /\ Invoked(inflight[j], "inline_deploy_topology")
        /\ DomainsOf(inflight[i].topo.id) # {}

\* the requests that have cloned and saved a topology
SavedClones ==
    {i \in Running({"start_topology_old"}) : Invoked(inflight[i], "Topology.save")}

\* the last octets of the managed nodes of a stored row
Hosts(row) == {e.ip.host : e \in Range(VmEntries(row.json))}

\* the k lowest last octets from the start offset on that are not in used
FirstFree(used, k) ==
    {n \in StartOffset..(StartOffset + k + Cardinality(used)) :
        /\ n \notin used
        /\ Cardinality({m \in StartOffset..n : m \notin used}) <= k}

\* C17: the addresses of a clone are allocated against the used-address list
\* the request read before the loop, not against the table at the time of the
\* save: they are the lowest octets free in that list, so two clones that read
\* the same list give their nodes the same addresses.  (With the witness: two
\* stored topologies whose nodes hold the same address.)
C17_ClonesShareSnapshot ==
    \A i \in SavedClones :
        LET r == inflight[i]
        IN  /\ Hosts(r.topo) = FirstFree(r.all_used_ips, Len(VmEntries(r.source.json)))
            /\ \A j \in SavedClones :
                  (/\ inflight[j].all_used_ips = r.all_used_ips
                   /\ Len(VmEntries(inflight[j].source.json)) = Len(VmEntries(r.source.json)))
                  => Hosts(inflight[j].topo) = Hosts(r.topo)

\* two clone requests read the same used list before either saved, and the
\* two topologies they stored have a managed node with the same address
C17_Witness ==
    \E i \in SavedClones : \E j \in SavedClones :
        /\ i # j
        /\ inflight[i].all_used_ips = inflight[j].all_used_ips
        /\ inflight[i].topo \in topologies /\ inflight[j].topo \in topologies
        /\ inflight[i].topo.id # inflight[j].topo.id
        /\ \E e \in Range(VmEntries(inflight[i].topo.json)) :
           \E f \in Range(VmEntries(inflight[j].topo.json)) : e.ip = f.ip

\* the teardown r has released a reservation and has not reloaded DHCP since
ReleasedNotReloaded(r) ==
    r.should_reconfigure_dhcp /\ ~Invoked(r, "reload_dhcp_config")

InitDeployed ==
    LET t == [id |-> 1, name |-> "lab1", json |-> DocMixed]
        done == Range(DeployPlan(t, << >>, << >>))
    IN  /\ topologies = {t}
        /\ nextId = 2
        /\ domains = DomainsAfter(<< >>, done)
        /\ networks = NetworksAfter(<< >>, done)
        /\ defined = DefinedAfter(<< >>, done)
        /\ ncalls = 0
        /\ last = Idle
        /\ inflight = << >>

Deployed == InitDeployed /\ [][Next]_vars

\* the managed nodes of the topology the call in progress is about
ManagedNodes ==
    UNION {{e.label : e \in Range(VmEntries(t.json))} : t \in ById(last.topologyId)}

\* every console probe of the call was made on a domain the hypervisor has
ProbedExisting ==
    \A i \in At(last.trace, {"is_linux_device_at_prompt"}) : last.trace[i].a \in DOMAIN domains

\* C21 (as claimed): when get_topology_status answers overall 'ready', every
\* managed node of the topology's document has a domain on the hypervisor that
\* is not shut off.
C21_ReadyImpliesLiveDomains ==
    (StatusFound /\ last.res.status = "ready" /\ ProbedExisting) =>
        \A l \in ManagedNodes :
            /\ << last.topologyId, l >> \in DOMAIN domains
            /\ domains[<< last.topologyId, l >>] # "shut off"

====
